---- MODULE Spec2Model ----
(***************************************************************************)
(* DropcountrClient (src/dropcountr_client.py): one client instance, the   *)
(* lazily created httpx session it owns, and the calls a single-threaded   *)
(* caller makes on it.  The vendor server is the environment: every        *)
(* request is answered by a response drawn from Responses, or by no        *)
(* response at all (a transport failure).                                  *)
(*                                                                         *)
(* Strings that the code takes apart (URI templates, period, during) are   *)
(* sequences of tokens; the token "/" is the reserved character the        *)
(* formatter looks for and the template engine percent-encodes.            *)
(***************************************************************************)
EXTENDS Integers, Sequences, FiniteSets, TLC

VARIABLES http_client, sessions, inWith, last

vars == <<http_client, sessions, inWith, last>>

\* Number of sessions one run may create.
MaxSessions == 2

\* self._http_client = None
None == 0

SessionIds == 1..MaxSessions

----------------------------------------------------------------------------
(* Class constants and the API header mapping.                             *)

LOGIN_URL == <<"https://dropcountr.com/login">>

USER_DISCOVERY_API == <<"https://dropcountr.com/api/me">>

LOGOUT_URL == <<"https://dropcountr.com/api/logout">>

\* Header values; "" stands for a header that is absent.
headers ==
  [ua     |-> "Dropcountr Python Client",
   ct     |-> "application/json",
   accept |-> "application/vnd.dropcountr.api+json;version=2"]

\* The headers a new httpx.Client carries before anyone updates them.
DefaultSessionHeaders == [ua |-> "python-httpx", ct |-> "", accept |-> "*/*"]

\* httpx.Client(follow_redirects=True, cookies=httpx.Cookies())
NewSession ==
  [state |-> "live", headers |-> DefaultSessionHeaders, cookies |-> {},
   established |-> FALSE]

Unborn ==
  [state |-> "unborn", headers |-> DefaultSessionHeaders, cookies |-> {},
   established |-> FALSE]

\* A closed session: no reference to the object remains, so only the fact
\* that it was closed is kept.
Closed ==
  [state |-> "closed", headers |-> DefaultSessionHeaders, cookies |-> {},
   established |-> FALSE]

----------------------------------------------------------------------------
(* JSON values, response bodies and responses.                             *)

NoValue == [type |-> "none", text |-> "", members |-> {}]

JStr(s) == [type |-> "str", text |-> s, members |-> {}]

JDict(m) == [type |-> "dict", text |-> "", members |-> m]

JList == [type |-> "list", text |-> "", members |-> {}]

\* A body is text that either parses to a JSON document or does not.
Bodies ==
  { [valid |-> FALSE, doc |-> NoValue],
    [valid |-> TRUE, doc |-> JDict({<<"data", "v1">>, <<"meta", "v2">>})],
    [valid |-> TRUE, doc |-> JDict({<<"meta", "v2">>})],
    [valid |-> TRUE, doc |-> JList] }

Statuses == {200, 304, 404}

Cookies == {"sid"}

DataBody == [valid |-> TRUE, doc |-> JDict({<<"data", "v1">>, <<"meta", "v2">>})]

\* A success with every body; a redirect left unfollowed and an error, each
\* with an enveloped body and with text that is no JSON; and responses that
\* set the session cookie.
Responses ==
  [status : {200}, body : Bodies, set_cookie : {{}}]
  \cup [status : Statuses \ {200},
        body : {DataBody, [valid |-> FALSE, doc |-> NoValue]},
        set_cookie : {{}}]
  \cup [status : {200, 404}, body : {DataBody}, set_cookie : {Cookies}]

\* No response arrived: connection, DNS or TLS failure.
NoResp == [status |-> 0, body |-> [valid |-> FALSE, doc |-> NoValue], set_cookie |-> {}]

Answers == Responses \cup {NoResp}

----------------------------------------------------------------------------
(* Outcomes of a call, as the caller sees them.                            *)

NoError == ""

Return(v, r) == [kind |-> "return", error |-> NoError, status |-> 0, value |-> v, resp |-> r]

Raise(e, st) == [kind |-> "raise", error |-> e, status |-> st, value |-> NoValue, resp |-> NoResp]

Ok(v) == [err |-> NoError, val |-> v]

Err(e) == [err |-> e, val |-> NoValue]

\* What one method call did: the client afterwards, whether it created a
\* session, the requests it sent, the response it got, its outcome and the
\* number of close() calls it made.
Result(c, created, reqs, resp, out, closes) ==
  [c |-> c, created |-> created, reqs |-> reqs, resp |-> resp, out |-> out,
   closes |-> closes]

----------------------------------------------------------------------------
(* The session holder: __init__, close, http, api.                         *)

\* The client's own state: the holder and the sessions it has created.
Client == [http_client |-> http_client, sessions |-> sessions]

\* The next httpx.Client object: the lowest identity not yet used.
NextId(ss) == CHOOSE i \in SessionIds :
                /\ ss[i].state = "unborn"
                /\ \A j \in SessionIds : ss[j].state = "unborn" => i <= j

\* A call that needs a session can be modelled while the client holds one
\* or the run may still create one.
HasCapacity(c) ==
  IF c.http_client # None THEN TRUE
  ELSE \E i \in SessionIds : c.sessions[i].state = "unborn"

\* Bug variant of close: the session is closed but the holder keeps it.
closeKeepsHolder(c) ==
  IF c.http_client # None
  THEN Result([c EXCEPT !.sessions[c.http_client] = Closed],
              FALSE, <<>>, NoResp, Return(NoValue, NoResp), 1)
  ELSE Result(c, FALSE, <<>>, NoResp, Return(NoValue, NoResp), 1)

\* Bug variant of close: the holder is reset but the session is left open.
closeLeaksSession(c) ==
  Result([c EXCEPT !.http_client = None],
         FALSE, <<>>, NoResp, Return(NoValue, NoResp), 1)

\* close(): if a session is held, close it and reset the holder to None.
close(c) ==
  IF c.http_client # None
  THEN Result([http_client |-> None,
               sessions |-> [c.sessions EXCEPT ![c.http_client] = Closed]],
              FALSE, <<>>, NoResp, Return(NoValue, NoResp), 1)
  ELSE Result(c, FALSE, <<>>, NoResp, Return(NoValue, NoResp), 1)

\* http: create the session when none is held, and return the held one
\* (the result's http_client).
http(c) ==
  IF c.http_client = None
  THEN LET id == NextId(c.sessions)
       IN  [http_client |-> id,
            sessions |-> [c.sessions EXCEPT ![id] = NewSession]]
  ELSE c

\* dict.update: every key of upd overrides the key of base.
Update(base, upd) ==
  [k \in DOMAIN base |-> IF k \in DOMAIN upd THEN upd[k] ELSE base[k]]

\* api: the held session, after client.headers.update(self.headers).
api(c) ==
  LET c1 == http(c)
  IN  [c1 EXCEPT !.sessions[c1.http_client].headers = Update(@, headers)]

----------------------------------------------------------------------------
(* Sending a request on the held session (httpx.Client.post / .get).       *)

\* A form-encoded POST sets Content-Type only when the session has none.
PostHeaders(h) ==
  [h EXCEPT !.ct = IF @ = "" THEN "application/x-www-form-urlencoded" ELSE @]

\* One request on the session c holds; answer is what the server sends.
\* A closed httpx.Client refuses to send; a response's Set-Cookie lands
\* in the session's cookie store.
Send(c, method, url, hdrs, answer) ==
  LET sid == c.http_client
      s   == c.sessions[sid]
      req == [method |-> method, url |-> url, headers |-> hdrs,
              cookies |-> s.cookies, session |-> sid]
  IN  IF s.state # "live"
      THEN [c |-> c, reqs |-> <<>>, resp |-> NoResp, err |-> "RuntimeError"]
      ELSE IF answer = NoResp
      THEN [c |-> c, reqs |-> <<req>>, resp |-> NoResp, err |-> "ConnectError"]
      ELSE [c |-> [c EXCEPT !.sessions[sid].cookies = @ \cup answer.set_cookie],
            reqs |-> <<req>>, resp |-> answer, err |-> NoError]

----------------------------------------------------------------------------
(* login and get.                                                          *)

\* httpx.Response.is_success
is_success(resp) == 200 <= resp.status /\ resp.status <= 299

\* Bug variant of raise_for_status: only 4xx and 5xx are errors.
raiseForErrorStatusOnly(resp) ==
  IF resp.status < 400 THEN NoError ELSE "HTTPStatusError"

\* response.raise_for_status(): any status outside 2xx raises.
raise_for_status(resp) ==
  IF is_success(resp) THEN NoError ELSE "HTTPStatusError"

\* response.json(): the parsed document, or a decode error.
json(resp) ==
  IF resp.body.valid THEN Ok(resp.body.doc) ELSE Err("JSONDecodeError")

\* Bug variant of the subscript: dict.get(key), None when the key is absent
\* or the document is no dict.
getitemOrNone(v, key) ==
  IF v.type = "dict" /\ \E m \in v.members : m[1] = key
  THEN Ok(JStr((CHOOSE m \in v.members : m[1] = key)[2]))
  ELSE Ok(NoValue)

\* v[key]: a dict gives the member or KeyError; a list or a string
\* subscripted by a string gives TypeError.
getitem(v, key) ==
  IF v.type # "dict" THEN Err("TypeError")
  ELSE IF \E m \in v.members : m[1] = key
  THEN Ok(JStr((CHOOSE m \in v.members : m[1] = key)[2]))
  ELSE Err("KeyError")

\* Bug variant of the unwrapping: the parsed envelope itself is returned.
unwrapReturnsEnvelope(resp) ==
  IF raise_for_status(resp) # NoError
  THEN Raise(raise_for_status(resp), resp.status)
  ELSE IF json(resp).err # NoError
  THEN Raise(json(resp).err, 0)
  ELSE IF getitem(json(resp).val, "data").err # NoError
  THEN Raise(getitem(json(resp).val, "data").err, 0)
  ELSE Return(json(resp).val, NoResp)

\* response.raise_for_status(); return response.json()["data"]
unwrap(resp) ==
  IF raise_for_status(resp) # NoError
  THEN Raise(raise_for_status(resp), resp.status)
  ELSE IF json(resp).err # NoError
  THEN Raise(json(resp).err, 0)
  ELSE IF getitem(json(resp).val, "data").err # NoError
  THEN Raise(getitem(json(resp).val, "data").err, 0)
  ELSE Return(getitem(json(resp).val, "data").val, NoResp)

\* The session remembers that a login POST was answered on it.
MarkEstablished(c, sent) ==
  IF sent.resp = NoResp THEN c
  ELSE [c EXCEPT !.sessions[c.http_client].established = TRUE]

\* Bug variant of login: the status is validated as in get.
loginValidatesStatus(c, answer) ==
  LET c1   == http(c)
      sent == Send(c1, "POST", LOGIN_URL,
                   PostHeaders(c1.sessions[c1.http_client].headers), answer)
  IN  Result(MarkEstablished(sent.c, sent), c.http_client = None, sent.reqs, sent.resp,
             IF sent.err # NoError THEN Raise(sent.err, 0)
             ELSE IF raise_for_status(sent.resp) # NoError
             THEN Raise("HTTPStatusError", sent.resp.status)
             ELSE Return(NoValue, sent.resp),
             0)

\* login(): POST the credentials on self.http and return the response.
login(c, answer) ==
  LET c1   == http(c)
      sent == Send(c1, "POST", LOGIN_URL,
                   PostHeaders(c1.sessions[c1.http_client].headers), answer)
  IN  Result(MarkEstablished(sent.c, sent), c.http_client = None, sent.reqs, sent.resp,
             IF sent.err # NoError THEN Raise(sent.err, 0)
             ELSE Return(NoValue, sent.resp),
             0)

\* get(url): GET on self.api, then unwrap the response.
get(c, url, answer) ==
  LET c1   == api(c)
      sent == Send(c1, "GET", url, c1.sessions[c1.http_client].headers, answer)
  IN  Result(sent.c, c.http_client = None, sent.reqs, sent.resp,
             IF sent.err # NoError THEN Raise(sent.err, 0)
             ELSE unwrap(sent.resp),
             0)

\* Bug variant of logout: the session is released after the GET.
logoutReleasesSession(c, answer) ==
  LET r == get(c, LOGOUT_URL, answer)
  IN  IF r.out.kind = "return" THEN [r EXCEPT !.c = close(r.c).c] ELSE r

logout(c, answer) == get(c, LOGOUT_URL, answer)

me(c, answer) == get(c, USER_DISCOVERY_API, answer)

premise(c, url, answer) == get(c, url, answer)

service_connection(c, url, answer) == get(c, url, answer)

----------------------------------------------------------------------------
(* URI templates, the time-range formatter and the series calls.           *)

Lit(s) == [lit |-> s, op |-> "", var |-> ""]

\* {var} when op is "", {+var} when op is "+".
Var(op, name) == [lit |-> "", op |-> op, var |-> name]

Range(s) == { s[i] : i \in DOMAIN s }

\* Percent-encoding of one token: the reserved characters are encoded,
\* everything else is unreserved text.
PctEncode(t) ==
  IF t = "/" THEN "%2F" ELSE IF t = ":" THEN "%3A" ELSE t

RECURSIVE Quote(_)
Quote(s) == IF s = <<>> THEN <<>> ELSE <<PctEncode(Head(s))>> \o Quote(Tail(s))

\* The value of one expression: simple expansion quotes the value, reserved
\* expansion keeps it; a variable that was not supplied expands to nothing.
ExpandVar(part, period, during) ==
  LET bound == part.var \in {"period", "during"}
      value == IF part.var = "period" THEN period ELSE during
  IN  IF ~bound THEN <<>>
      ELSE IF part.op = "+" THEN value
      ELSE Quote(value)

\* URITemplate(templated_url).expand(period=..., during=...)
RECURSIVE expand(_, _, _)
expand(template, period, during) ==
  IF template = <<>> THEN <<>>
  ELSE (IF Head(template).lit # ""
        THEN <<Head(template).lit>>
        ELSE ExpandVar(Head(template), period, during))
       \o expand(Tail(template), period, during)

\* Bug variant of the formatter: a single date becomes the interval
\* date/date.
formatSingleDateAsInterval(during) ==
  IF "/" \in Range(during) THEN during ELSE during \o <<"/">> \o during

\* _format_time_range(during): returned as is when it holds a "/", and
\* returned as is otherwise.
format_time_range(during) ==
  IF "/" \in Range(during) THEN during ELSE during

\* _series: expand the template, then get the expanded URL.
series(c, templated_url, period, during, answer) ==
  get(c, expand(templated_url, period, format_time_range(during)), answer)

usage(c, templated_url, period, during, answer) ==
  series(c, templated_url, period, during, answer)

cost(c, templated_url, period, during, answer) ==
  series(c, templated_url, period, during, answer)

goal(c, templated_url, period, during, answer) ==
  series(c, templated_url, period, during, answer)

\* Bug variant of __exit__: the session is released on a normal exit only.
exitClosesOnNormalExitOnly(c, exc) ==
  IF exc THEN Result(c, FALSE, <<>>, NoResp, Return(NoValue, NoResp), 0)
  ELSE close(c)

\* __exit__(exc_type, exc_val, exc_tb): self.close(); the None it returns
\* lets the exception, if any, propagate.
exit(c, exc) == close(c)

----------------------------------------------------------------------------
(* The inputs of a run.                                                    *)

Urls == { <<"https://dropcountr.com/api/premises/1">> }

Templates ==
  { <<Lit("https://x/"), Var("", "period"), Lit("/"), Var("", "during")>>,
    <<Lit("https://y/"), Var("+", "during"), Lit("/"), Var("", "zone")>> }

Periods == { <<"day">> }

Durings ==
  { <<"2023-01-01", "/", "2023-01-31">>,
    <<"2023-01-01">>,
    <<"2023-01-01T00", ":", "00Z", "/", "2023-01-31">> }

\* The (template, period, during) triples the series calls are made with.
SeriesInputs ==
  { <<t, p, d>> \in Templates \X Periods \X Durings :
      (t[2].var = "period") = (Len(d) <= 3) }

----------------------------------------------------------------------------
(* The state machine: one action per method call of the caller.            *)

NoArgs == [url |-> <<>>, tpl |-> <<>>, period |-> <<>>, during |-> <<>>]

UrlArg(url) == [NoArgs EXCEPT !.url = url]

SeriesArgs(t, p, d) == [url |-> <<>>, tpl |-> t, period |-> p, during |-> d]

\* The call just made: its name and arguments, the holder before it,
\* whether a login had been answered on the session held before it, and
\* what it did.
Called(op, a, r, exc, out) ==
  [op |-> op, url |-> a.url, tpl |-> a.tpl, period |-> a.period,
   during |-> a.during, pre |-> http_client,
   est |-> IF http_client = None THEN FALSE ELSE sessions[http_client].established,
   created |-> r.created,
   reqs |-> r.reqs, resp |-> r.resp, out |-> out, closes |-> r.closes,
   exc |-> exc]

\* A method call made by the caller, inside or outside a with-block.
Do(op, a, r) ==
  /\ http_client' = r.c.http_client
  /\ sessions' = r.c.sessions
  /\ last' = Called(op, a, r, FALSE, r.out)
  /\ UNCHANGED inWith

\* DropcountrClient(email, password): no session, no network.
Init ==
  /\ http_client = None
  /\ sessions = [i \in SessionIds |-> Unborn]
  /\ inWith = FALSE
  /\ last = Called("__init__", NoArgs,
                   Result(Client, FALSE, <<>>, NoResp, Return(NoValue, NoResp), 0),
                   FALSE, Return(NoValue, NoResp))

Login ==
  /\ HasCapacity(Client)
  /\ \E answer \in Answers : Do("login", NoArgs, login(Client, answer))

Get ==
  /\ HasCapacity(Client)
  /\ \E url \in Urls, answer \in Answers :
       Do("get", UrlArg(url), get(Client, url, answer))

Logout ==
  /\ HasCapacity(Client)
  /\ \E answer \in Answers : Do("logout", NoArgs, logout(Client, answer))

Me ==
  /\ HasCapacity(Client)
  /\ \E answer \in Answers : Do("me", NoArgs, me(Client, answer))

Premise ==
  /\ HasCapacity(Client)
  /\ \E url \in Urls, answer \in Answers :
       Do("premise", UrlArg(url), premise(Client, url, answer))

ServiceConnection ==
  /\ HasCapacity(Client)
  /\ \E url \in Urls, answer \in Answers :
       Do("service_connection", UrlArg(url), service_connection(Client, url, answer))

Usage ==
  /\ HasCapacity(Client)
  /\ \E x \in SeriesInputs, answer \in Answers :
       Do("usage", SeriesArgs(x[1], x[2], x[3]), usage(Client, x[1], x[2], x[3], answer))

Cost ==
  /\ HasCapacity(Client)
  /\ \E x \in SeriesInputs, answer \in Answers :
       Do("cost", SeriesArgs(x[1], x[2], x[3]), cost(Client, x[1], x[2], x[3], answer))

Goal ==
  /\ HasCapacity(Client)
  /\ \E x \in SeriesInputs, answer \in Answers :
       Do("goal", SeriesArgs(x[1], x[2], x[3]), goal(Client, x[1], x[2], x[3], answer))

Close == Do("close", NoArgs, close(Client))

\* with client: ... -- __enter__ returns self.
Enter ==
  /\ ~inWith
  /\ inWith' = TRUE
  /\ last' = Called("__enter__", NoArgs,
                    Result(Client, FALSE, <<>>, NoResp, Return(NoValue, NoResp), 0),
                    FALSE, Return(NoValue, NoResp))
  /\ UNCHANGED <<http_client, sessions>>

\* The block ends normally: __exit__(None, None, None).
ExitNormal ==
  /\ inWith
  /\ LET r == exit(Client, FALSE)
     IN  /\ http_client' = r.c.http_client
         /\ sessions' = r.c.sessions
         /\ last' = Called("__exit__", NoArgs, r, FALSE, r.out)
  /\ inWith' = FALSE

\* The last call in the block raised and nothing caught it: __exit__ runs
\* with the exception, and since it returns None the exception goes on to
\* the caller.
ExitError ==
  /\ inWith
  /\ last.out.kind = "raise"
  /\ LET r == exit(Client, TRUE)
     IN  /\ http_client' = r.c.http_client
         /\ sessions' = r.c.sessions
         /\ last' = Called("__exit__", NoArgs, r, TRUE,
                           IF r.out.value = NoValue THEN last.out ELSE r.out)
  /\ inWith' = FALSE

Next ==
  \/ Login
  \/ Get
  \/ Logout
  \/ Me
  \/ Premise
  \/ ServiceConnection
  \/ Usage
  \/ Cost
  \/ Goal
  \/ Close
  \/ Enter
  \/ ExitNormal
  \/ ExitError

Spec == Init /\ [][Next]_vars

----------------------------------------------------------------------------
(* Properties.                                                             *)

GetPathOps ==
  {"get", "logout", "me", "premise", "service_connection", "usage", "cost", "goal"}

SeriesOps == {"usage", "cost", "goal"}

\* The last call was made through get() and the server answered it.
GetAnswered == last.op \in GetPathOps /\ last.resp # NoResp

Is2xx(r) == r.status \in 200..299

\* The body is JSON, a dict, and has the key "data".
HasData(r) ==
  /\ r.body.valid
  /\ r.body.doc.type = "dict"
  /\ \E m \in r.body.doc.members : m[1] = "data"

LiveSessions == { i \in SessionIds : sessions[i].state = "live" }

\* C1: a get-path call answered with a 2xx status and a JSON body that has
\* a data key returns exactly the value under data.
C1_GetReturnsData ==
  (GetAnswered /\ Is2xx(last.resp) /\ HasData(last.resp))
    => /\ last.out.kind = "return"
       /\ \A m \in last.resp.body.doc.members :
            m[1] = "data" => last.out.value = JStr(m[2])

C1_Witness ==
  /\ last.op = "get"
  /\ last.resp # NoResp /\ Is2xx(last.resp) /\ HasData(last.resp)
  /\ last.out.kind = "return"

\* C2: a get-path call answered with a status outside 2xx raises an HTTP
\* error that carries that status and returns no value, whatever the body.
C2_Non2xxRaises ==
  (GetAnswered /\ ~Is2xx(last.resp))
    => /\ last.out.kind = "raise"
       /\ last.out.error = "HTTPStatusError"
       /\ last.out.status = last.resp.status
       /\ last.out.value = NoValue

C2_Witness ==
  /\ last.op = "logout"
  /\ last.resp # NoResp /\ last.resp.status = 304 /\ HasData(last.resp)
  /\ last.out.kind = "raise"

\* C3: a get-path call answered with a 2xx status and a body that is not
\* JSON, or is JSON without a data key, raises a decode or structure error
\* and returns no value.
C3_MalformedBodyRaises ==
  (GetAnswered /\ Is2xx(last.resp) /\ ~HasData(last.resp))
    => /\ last.out.kind = "raise"
       /\ last.out.value = NoValue
       /\ last.out.error =
            IF ~last.resp.body.valid THEN "JSONDecodeError"
            ELSE IF last.resp.body.doc.type = "dict" THEN "KeyError"
            ELSE "TypeError"

C3_Witness ==
  /\ last.op = "me"
  /\ last.resp # NoResp /\ Is2xx(last.resp)
  /\ last.resp.body.valid /\ last.resp.body.doc.type = "dict" /\ ~HasData(last.resp)
  /\ last.out.error = "KeyError"

\* C4: close() never raises and leaves no session held; when none was held
\* it changes nothing; the next call that needs a session then creates a
\* new one, with an empty cookie store, and sends its request on it.
C4_CloseIdempotent ==
  [][ /\ last'.op = "close"
        => /\ last'.out.kind = "return"
           /\ http_client' = None
           /\ (http_client = None => sessions' = sessions)
      /\ (http_client = None /\ last'.op \in GetPathOps \cup {"login"})
        => /\ last'.created
           /\ http_client' # None
           /\ sessions[http_client'].state = "unborn"
           /\ sessions'[http_client'].state = "live"
           /\ Len(last'.reqs) = 1
           /\ last'.reqs[1].session = http_client'
           /\ last'.reqs[1].cookies = {}
    ]_vars

\* close() was called with nothing held, after an earlier close() released
\* a session.
C4_Witness ==
  /\ last.op = "close"
  /\ last.pre = None
  /\ \E i \in SessionIds : sessions[i].state = "closed"

\* C5: leaving a with-block calls close() exactly once, on a normal exit
\* and on an exit by an exception, and no session is held afterwards; the
\* exception goes on to the caller.
C5_ScopeExitCloses ==
  last.op = "__exit__"
    => /\ last.closes = 1
       /\ http_client = None
       /\ LiveSessions = {}
       /\ (last.exc => last.out.kind = "raise")

C5_Witness ==
  /\ last.op = "__exit__"
  /\ last.exc
  /\ last.pre # None
  /\ last.out.error = "HTTPStatusError"

\* C6: login() returns the response the login endpoint sent, whatever its
\* status.
C6_LoginReturnsRawResponse ==
  (last.op = "login" /\ last.resp # NoResp)
    => /\ last.out.kind = "return"
       /\ last.out.resp = last.resp

C6_Witness ==
  /\ last.op = "login"
  /\ last.resp # NoResp /\ last.resp.status = 404
  /\ last.out.kind = "return"

\* C7: usage, cost and goal do the same thing: the formatter returns
\* during unchanged, one GET goes to the template expanded with period and
\* the unchanged during, and the call's outcome is that GET's outcome.
C7_SeriesIdentical ==
  /\ \A x \in SeriesInputs, answer \in Answers :
       HasCapacity(Client) =>
         /\ usage(Client, x[1], x[2], x[3], answer) = cost(Client, x[1], x[2], x[3], answer)
         /\ cost(Client, x[1], x[2], x[3], answer) = goal(Client, x[1], x[2], x[3], answer)
  /\ last.op \in SeriesOps
       => /\ format_time_range(last.during) = last.during
          /\ Len(last.reqs) = 1
          /\ last.reqs[1].method = "GET"
          /\ last.reqs[1].url = expand(last.tpl, last.period, last.during)
          /\ last.out = IF last.resp = NoResp THEN Raise("ConnectError", 0)
                        ELSE unwrap(last.resp)

\* A series call with a during that holds no "/".
C7_Witness ==
  /\ last.op = "cost"
  /\ "/" \notin Range(last.during)
  /\ last.out.kind = "return"

\* C8: the API headers are not stored on the session, and a login POST
\* does not carry them.
C8_HeadersNotStored ==
  /\ \A i \in LiveSessions : sessions[i].headers = DefaultSessionHeaders
  /\ (last.op = "login" /\ last.reqs # <<>>)
       => \A k \in DOMAIN headers : last.reqs[1].headers[k] # headers[k]

\* C9: only the held session is live, and a session is created only when
\* none is held.
C9_AtMostOneLiveSession ==
  /\ Cardinality(LiveSessions) <= 1
  /\ \A i \in LiveSessions : i = http_client
  /\ last.created => last.pre = None
  /\ last.op = "__init__" => \A i \in SessionIds : sessions[i].state = "unborn"

\* A session was created after an earlier one had been closed.
C9_Witness ==
  /\ last.created
  /\ http_client # None
  /\ \E i \in SessionIds : sessions[i].state = "closed"

\* The last call found the client in SessionEstablished: it held a
\* session on which a login had been answered.
WasEstablished == last.pre # None /\ last.est

\* C10 as stated: from SessionEstablished, a completed logout(), like a
\* close(), leaves the client in Closed, with no live session held.
C10_LogoutOrCloseReleases ==
  (last.op \in {"logout", "close"} /\ last.out.kind = "return" /\ WasEstablished)
    => http_client = None /\ LiveSessions = {}

\* C10 amended: close() leaves no live session; logout() never releases
\* the session it ran on; and no call is refused by the client: whatever
\* state it is in, a login or get-path call sends its one request.
C10_CloseReleasesLogoutKeeps ==
  /\ last.op = "close" => http_client = None /\ LiveSessions = {}
  /\ last.op = "logout"
       => /\ http_client # None
          /\ LiveSessions = {http_client}
          /\ (last.pre # None => http_client = last.pre)
  /\ last.op \in GetPathOps \cup {"login"}
       => /\ Len(last.reqs) = 1
          /\ last.reqs[1].session = http_client
          /\ last.out.error # "RuntimeError"

C10_Witness ==
  /\ last.op = "logout"
  /\ last.out.kind = "return"
  /\ WasEstablished
  /\ http_client = last.pre

====
